---------------------------- MODULE Spec2Model ----------------------------
(***************************************************************************)
(* Property Value Finder (src/app/page.tsx).                               *)
(*                                                                         *)
(* A JavaScript string is a sequence of one-character strings; a           *)
(* JavaScript value is a record tagged with the result of typeof (arrays   *)
(* and null get tags of their own, an exception in flight is the tag       *)
(* "throw").  A number is m * 10^p, kept normalised.                       *)
(***************************************************************************)
EXTENDS Integers, Sequences, FiniteSets, TLC

VARIABLES
    input,      \* extractValue: the text blob of the call
    key,        \* extractValue: the key of the call
    out,        \* extractValue: what the call returned (or threw)
    pathOut,    \* getByPath: what it returned for the parsed text and the key
    jsonOut,    \* searchJsonLike: what it returned
    urlOut,     \* searchUrlLike: what it returned
    pc,         \* the function called next on (input, key); "done" after the last
    raw,        \* Page: useState raw
    propKey,    \* Page: useState propKey
    result,     \* Page: useState result
    message,    \* Page: useState message
    effectDue,  \* Page: the recompute effect is scheduled and has not run
    reads,      \* Page: clipboard reads started by Paste and not yet settled
    last        \* Page: what the last step was, and whether it changed raw

coreVars == <<input, key, out, pathOut, jsonOut, urlOut, pc>>
pageVars == <<raw, propKey, result, message, effectDue, reads, last>>
vars == <<input, key, out, pathOut, jsonOut, urlOut, pc, raw, propKey, result, message, effectDue, reads, last>>

---------------------------------------------------------------------------
(* Characters *)

WhiteSpace == {" ", "\t", "\n", "\r", "\f"}

DigitChars == <<"0", "1", "2", "3", "4", "5", "6", "7", "8", "9">>

LowerChars == <<"a", "b", "c", "d", "e", "f", "g", "h", "i", "j", "k", "l", "m",
                "n", "o", "p", "q", "r", "s", "t", "u", "v", "w", "x", "y", "z">>

UpperChars == <<"A", "B", "C", "D", "E", "F", "G", "H", "I", "J", "K", "L", "M",
                "N", "O", "P", "Q", "R", "S", "T", "U", "V", "W", "X", "Y", "Z">>

IsDigit(c) == \E i \in 1..10 : DigitChars[i] = c

DigitVal(c) == (CHOOSE i \in 1..10 : DigitChars[i] = c) - 1

IsLower(c) == \E i \in 1..26 : LowerChars[i] = c

IsUpper(c) == \E i \in 1..26 : UpperChars[i] = c

IsAlpha(c) == IsLower(c) \/ IsUpper(c)

\* String.prototype.toLowerCase on one character.
LowerOf(c) == IF IsUpper(c) THEN LowerChars[CHOOSE i \in 1..26 : UpperChars[i] = c] ELSE c

toLowerCase(s) == [i \in 1..Len(s) |-> LowerOf(s[i])]

\* Two characters match under the RegExp flag "i".
SameCharI(a, b) == LowerOf(a) = LowerOf(b)

IsHex(c) == IsDigit(c) \/ LowerOf(c) \in {"a", "b", "c", "d", "e", "f"}

HexVal(c) ==
    IF IsDigit(c) THEN DigitVal(c)
    ELSE 9 + (CHOOSE i \in 1..6 : LowerChars[i] = LowerOf(c))

\* s has the characters of w at position i.
HasAt(s, i, w) ==
    /\ i >= 1
    /\ i + Len(w) - 1 <= Len(s)
    /\ \A n \in 1..Len(w) : s[i + n - 1] = w[n]

\* The same, ignoring letter case.
HasAtI(s, i, w) ==
    /\ i >= 1
    /\ i + Len(w) - 1 <= Len(s)
    /\ \A n \in 1..Len(w) : SameCharI(s[i + n - 1], w[n])

\* The first position >= i whose character is not in set cs (Len(s)+1 if none).
RECURSIVE SkipIn(_, _, _)
SkipIn(s, i, cs) ==
    IF i <= Len(s) /\ s[i] \in cs THEN SkipIn(s, i + 1, cs) ELSE i

\* The first position >= i whose character is in set cs (Len(s)+1 if none).
RECURSIVE SkipNotIn(_, _, _)
SkipNotIn(s, i, cs) ==
    IF i <= Len(s) /\ s[i] \notin cs THEN SkipNotIn(s, i + 1, cs) ELSE i

RECURSIVE SkipDigits(_, _)
SkipDigits(s, i) ==
    IF i <= Len(s) /\ IsDigit(s[i]) THEN SkipDigits(s, i + 1) ELSE i

Sub(s, a, b) == IF a > b THEN <<>> ELSE SubSeq(s, a, b)

\* String.prototype.trim
RECURSIVE TrimEnd(_)
TrimEnd(s) ==
    IF Len(s) > 0 /\ s[Len(s)] \in WhiteSpace THEN TrimEnd(Sub(s, 1, Len(s) - 1)) ELSE s

trim(s) == TrimEnd(Sub(s, SkipIn(s, 1, WhiteSpace), Len(s)))

\* String.prototype.includes for a one-character needle.
includes(s, c) == \E i \in 1..Len(s) : s[i] = c

---------------------------------------------------------------------------
(* JavaScript values *)

Undefined == [t |-> "undefined"]
Null == [t |-> "null"]
Str(s) == [t |-> "string", s |-> s]
Bool(b) == [t |-> "boolean", b |-> b]
Dec(m, p) == [t |-> "number", m |-> m, p |-> p]
NaN == [t |-> "number", nan |-> TRUE]
Obj(fields) == [t |-> "object", f |-> fields]
Arr(items) == [t |-> "array", a |-> items]
Fn(name) == [t |-> "function", name |-> name]
Throw(e) == [t |-> "throw", e |-> e]

\* The typeof operator: null and arrays are "object".
typeof(v) == IF v.t \in {"null", "array"} THEN "object" ELSE v.t

IsThrow(v) == v.t = "throw"

RECURSIVE TenTo(_)
TenTo(n) == IF n <= 0 THEN 1 ELSE 10 * TenTo(n - 1)

\* m * 10^p, normalised: an integer has p = 0, a fraction has m not divisible by 10.
\* -0 is kept as 0 (they are === and print the same).
RECURSIVE Norm(_, _)
Norm(m, p) ==
    IF m = 0 THEN Dec(0, 0)
    ELSE IF p > 0 THEN Dec(m * TenTo(p), 0)
    ELSE IF p < 0 /\ m % 10 = 0 THEN Norm(m \div 10, p + 1)
    ELSE Dec(m, p)

RECURSIVE IntOf(_)
IntOf(ds) == IF ds = <<>> THEN 0 ELSE 10 * IntOf(Sub(ds, 1, Len(ds) - 1)) + DigitVal(ds[Len(ds)])

\* Number.isInteger
IsInteger(n) == "nan" \notin DOMAIN n /\ n.p = 0


\* What Number(string) and a JSON number read at position i: an unsigned decimal
\* literal, digits [. digits] [e [+-] digits].  "Infinity" and the 0x, 0o, 0b
\* forms of Number() are outside the model's alphabet.
ScanDecimal(s, i) ==
    LET a == SkipDigits(s, i)
        hasDot == a <= Len(s) /\ s[a] = "."
        b == IF hasDot THEN SkipDigits(s, a + 1) ELSE a
        intDs == Sub(s, i, a - 1)
        fracDs == IF hasDot THEN Sub(s, a + 1, b - 1) ELSE <<>>
        hasE == b <= Len(s) /\ s[b] \in {"e", "E"}
        signed == hasE /\ b + 1 <= Len(s) /\ s[b + 1] \in {"+", "-"}
        es == IF signed THEN b + 2 ELSE b + 1
        ee == SkipDigits(s, es)
        expOk == hasE /\ ee > es
        expAbs == IF expOk THEN IntOf(Sub(s, es, ee - 1)) ELSE 0
        exp == IF signed /\ s[b + 1] = "-" THEN 0 - expAbs ELSE expAbs
    IN  [ok |-> intDs # <<>> \/ fracDs # <<>>,
         end |-> IF expOk THEN ee ELSE b,
         intDs |-> intDs, fracDs |-> fracDs, hasDot |-> hasDot,
         m |-> IntOf(intDs \o fracDs), p |-> exp - Len(fracDs)]

\* Number(s) for a string s.
StringToNumber(t, d) ==
    IF t = <<>> THEN Dec(0, 0)
    ELSE IF d.ok /\ d.end = Len(t) + 1
         THEN Norm(IF t[1] = "-" THEN 0 - d.m ELSE d.m, d.p)
    ELSE NaN

TrimmedToNumber(t) ==
    StringToNumber(t, ScanDecimal(t, IF Len(t) > 0 /\ t[1] \in {"+", "-"} THEN 2 ELSE 1))

NumberOf(s) == TrimmedToNumber(trim(s))

isNaN(n) == "nan" \in DOMAIN n

RECURSIVE NatToStr(_)
NatToStr(n) ==
    IF n < 10 THEN <<DigitChars[n + 1]>>
    ELSE Append(NatToStr(n \div 10), DigitChars[(n % 10) + 1])

RECURSIVE Zeros(_)
Zeros(n) == IF n <= 0 THEN <<>> ELSE <<"0">> \o Zeros(n - 1)

\* String(n) for a number in the range JavaScript prints without an exponent.
NumToStr(n) ==
    LET abs == IF n.m < 0 THEN 0 - n.m ELSE n.m
        ds == NatToStr(abs)
        fl == 0 - n.p
        padded == IF Len(ds) <= fl THEN Zeros(fl - Len(ds) + 1) \o ds ELSE ds
        body == IF n.p = 0 THEN ds
                ELSE Sub(padded, 1, Len(padded) - fl) \o <<".">>
                     \o Sub(padded, Len(padded) - fl + 1, Len(padded))
    IN  IF n.m < 0 THEN <<"-">> \o body ELSE body

---------------------------------------------------------------------------
(* JSON.parse *)

JsonWs == {" ", "\t", "\n", "\r"}

Fail == [ok |-> FALSE, v |-> Undefined, i |-> 1]
Ok(v, i) == [ok |-> TRUE, v |-> v, i |-> i]

HasField(fields, k) == \E n \in 1..Len(fields) : fields[n].k = k

FieldIndex(fields, k) == CHOOSE n \in 1..Len(fields) : fields[n].k = k

\* A repeated member name keeps its first position and takes the last value.
SetField(fields, k, v) ==
    IF HasField(fields, k)
    THEN [fields EXCEPT ![FieldIndex(fields, k)] = [k |-> k, v |-> v]]
    ELSE Append(fields, [k |-> k, v |-> v])

\* What a backslash escape stands for.  The escapes \b and \uXXXX are outside
\* the model's alphabet.
EscapeChars == {"\"", "\\", "/", "n", "t", "r", "f"}

Unescape(c) ==
    IF c = "n" THEN "\n" ELSE IF c = "t" THEN "\t" ELSE IF c = "r" THEN "\r"
    ELSE IF c = "f" THEN "\f" ELSE c

\* The characters of a JSON string from position j (after the opening quote).
RECURSIVE StrBody(_, _, _)
StrBody(s, j, acc) ==
    LET esc == s[j] = "\\" IN
    IF j > Len(s) THEN Fail
    ELSE IF s[j] = "\"" THEN Ok(Str(acc), j + 1)
    ELSE IF esc /\ (j + 1 > Len(s) \/ s[j + 1] \notin EscapeChars) THEN Fail
    ELSE IF s[j] \in {"\t", "\n", "\r", "\f"} THEN Fail
    ELSE StrBody(s, IF esc THEN j + 2 ELSE j + 1,
                 Append(acc, IF esc THEN Unescape(s[j + 1]) ELSE s[j]))

\* -? (0 | [1-9] digits) (. digits+)? exponent?
StrictNumber(neg, d) ==
    IF /\ d.intDs # <<>>
       /\ (Len(d.intDs) = 1 \/ d.intDs[1] # "0")
       /\ (d.hasDot => d.fracDs # <<>>)
    THEN Ok(Norm(IF neg THEN 0 - d.m ELSE d.m, d.p), d.end)
    ELSE Fail

ParseNumber(s, i) ==
    StrictNumber(s[i] = "-", ScanDecimal(s, IF s[i] = "-" THEN i + 1 ELSE i))

\* A value without members or elements at position i: a string, a number, a
\* literal name, {} or [].
ParseSimple(s, i) ==
    IF s[i] = "\"" THEN StrBody(s, i + 1, <<>>)
    ELSE IF s[i] = "-" \/ IsDigit(s[i]) THEN ParseNumber(s, i)
    ELSE IF HasAt(s, i, <<"t", "r", "u", "e">>) THEN Ok(Bool(TRUE), i + 4)
    ELSE IF HasAt(s, i, <<"f", "a", "l", "s", "e">>) THEN Ok(Bool(FALSE), i + 5)
    ELSE IF HasAt(s, i, <<"n", "u", "l", "l">>) THEN Ok(Null, i + 4)
    ELSE IF s[i] = "{" /\ SkipIn(s, i + 1, JsonWs) <= Len(s) /\ s[SkipIn(s, i + 1, JsonWs)] = "}"
         THEN Ok(Obj(<<>>), SkipIn(s, i + 1, JsonWs) + 1)
    ELSE IF s[i] = "[" /\ SkipIn(s, i + 1, JsonWs) <= Len(s) /\ s[SkipIn(s, i + 1, JsonWs)] = "]"
         THEN Ok(Arr(<<>>), SkipIn(s, i + 1, JsonWs) + 1)
    ELSE Fail

\* The reader's state: the position, what is read next ("value", "name", or
\* "after" a finished value v), the containers still open, innermost last.
Reader(mode, i, v, open) == [mode |-> mode, i |-> i, v |-> v, open |-> open]

Frame(kind, items, name) == [kind |-> kind, items |-> items, name |-> name]

Failed == Reader("fail", 0, Undefined, <<>>)

Pop(open) == Sub(open, 1, Len(open) - 1)

\* The reader expects a value at position i, where r is what ParseSimple finds.
ValueRead(s, i, open, r) ==
    IF i > Len(s) THEN Failed
    ELSE IF r.ok THEN Reader("after", r.i, r.v, open)
    ELSE IF s[i] = "{" THEN Reader("name", i + 1, Undefined, Append(open, Frame("object", <<>>, <<>>)))
    ELSE IF s[i] = "[" THEN Reader("value", i + 1, Undefined, Append(open, Frame("array", <<>>, <<>>)))
    ELSE Failed

ReadValue(s, i, open) == ValueRead(s, i, open, ParseSimple(s, i))

\* The reader expects a member name and its colon at position i.
ReadName(s, i, open) ==
    LET k == StrBody(s, i + 1, <<>>)
        c == SkipIn(s, k.i, JsonWs)
        top == open[Len(open)]
    IN  IF i > Len(s) \/ s[i] # "\"" THEN Failed
        ELSE IF ~k.ok THEN Failed
        ELSE IF c > Len(s) \/ s[c] # ":" THEN Failed
        ELSE Reader("value", c + 1, Undefined,
                    Append(Pop(open), Frame("object", top.items, k.v.s)))

\* A value v ended before position i: it joins the innermost open container,
\* which a "," continues and its bracket closes.
ReadAfter(s, i, v, open) ==
    LET top == open[Len(open)]
        isObj == top.kind = "object"
        items == IF isObj THEN SetField(top.items, top.name, v) ELSE Append(top.items, v)
    IN  IF open = <<>> THEN (IF i > Len(s) THEN Reader("done", i, v, <<>>) ELSE Failed)
        ELSE IF i > Len(s) THEN Failed
        ELSE IF s[i] = "," THEN
            Reader(IF isObj THEN "name" ELSE "value", i + 1, Undefined,
                   Append(Pop(open), Frame(top.kind, items, <<>>)))
        ELSE IF s[i] = (IF isObj THEN "}" ELSE "]") THEN
            Reader("after", i + 1, IF isObj THEN Obj(items) ELSE Arr(items), Pop(open))
        ELSE Failed

ReadAt(s, i, st) ==
    IF st.mode = "value" THEN ReadValue(s, i, st.open)
    ELSE IF st.mode = "name" THEN ReadName(s, i, st.open)
    ELSE ReadAfter(s, i, st.v, st.open)

ReadStep(s, st) == ReadAt(s, SkipIn(s, st.i, JsonWs), st)

RECURSIVE ReadAll(_, _)
ReadAll(s, st) ==
    IF st.mode \in {"done", "fail"} THEN st ELSE ReadAll(s, ReadStep(s, st))

ReadResult(st) == IF st.mode = "done" THEN st.v ELSE Throw("SyntaxError")

\* JSON.parse(text): the value, or a SyntaxError thrown.
JSONparse(text) ==
    ReadResult(ReadAll(text, Reader("value", 1, Undefined, <<>>)))

---------------------------------------------------------------------------
(* Property access on parsed values *)

\* The methods every object inherits from Object.prototype.
ObjectPrototypeFunctions ==
    { <<"c", "o", "n", "s", "t", "r", "u", "c", "t", "o", "r">>,
      <<"t", "o", "S", "t", "r", "i", "n", "g">>,
      <<"t", "o", "L", "o", "c", "a", "l", "e", "S", "t", "r", "i", "n", "g">>,
      <<"v", "a", "l", "u", "e", "O", "f">>,
      <<"h", "a", "s", "O", "w", "n", "P", "r", "o", "p", "e", "r", "t", "y">>,
      <<"i", "s", "P", "r", "o", "t", "o", "t", "y", "p", "e", "O", "f">>,
      <<"p", "r", "o", "p", "e", "r", "t", "y", "I", "s", "E", "n", "u", "m", "e", "r", "a", "b", "l", "e">> }

ProtoName == <<"_", "_", "p", "r", "o", "t", "o", "_", "_">>

\* Object.prototype itself: an object with no own fields of interest.
ObjectPrototype == [t |-> "object", f |-> <<>>, root |-> TRUE]

\* obj[p] for a plain object obj and a string p: an own field, else what the
\* prototype chain gives.
GetProp(obj, p) ==
    IF HasField(obj.f, p) THEN obj.f[FieldIndex(obj.f, p)].v
    ELSE IF p \in ObjectPrototypeFunctions THEN Fn(p)
    ELSE IF p = ProtoName THEN (IF "root" \in DOMAIN obj THEN Null ELSE ObjectPrototype)
    ELSE Undefined

\* arr[idx] for an array arr and an integer idx.
GetIndex(arr, idx) ==
    IF idx.m >= 0 /\ idx.m < Len(arr.a) THEN arr.a[idx.m + 1] ELSE Undefined

\* String.prototype.split(".") followed by filter(Boolean).
RECURSIVE SplitDots(_, _, _)
SplitDots(s, i, cur) ==
    IF i > Len(s) THEN (IF cur = <<>> THEN <<>> ELSE <<cur>>)
    ELSE IF s[i] = "." THEN (IF cur = <<>> THEN <<>> ELSE <<cur>>) \o SplitDots(s, i + 1, <<>>)
    ELSE SplitDots(s, i + 1, Append(cur, s[i]))

---------------------------------------------------------------------------
(* src/app/page.tsx, lines 16-46 *)

isObject(v) == typeof(v) = "object" /\ v.t # "null" /\ v.t # "array"

\* Number.isInteger(idx) ? cur[idx] : undefined
AtIndex(cur, idx) == IF IsInteger(idx) THEN GetIndex(cur, idx) ELSE Undefined

\* The loop of getByPath from the n-th part on.
RECURSIVE Walk(_, _, _)
Walk(cur, parts, n) ==
    IF n > Len(parts) THEN cur
    ELSE IF cur.t \in {"null", "undefined"} THEN Undefined
    ELSE IF cur.t = "array" THEN Walk(AtIndex(cur, NumberOf(parts[n])), parts, n + 1)
    ELSE IF isObject(cur) THEN Walk(GetProp(cur, parts[n]), parts, n + 1)
    ELSE Undefined

getByPath(obj, path) ==
    IF ~isObject(obj) THEN Undefined
    ELSE Walk(obj, SplitDots(path, 1, <<>>), 1)

\* try { return JSON.parse(trimmed) } catch { return undefined }
ParseOrUndefined(parsed) == IF IsThrow(parsed) THEN Undefined ELSE parsed

ParseTrimmed(trimmed) ==
    IF trimmed = <<>> THEN Undefined ELSE ParseOrUndefined(JSONparse(trimmed))

\* tryParseJson without its try/catch: the SyntaxError of JSON.parse leaves it.
tryParseJsonUncaught(in) == IF trim(in) = <<>> THEN Undefined ELSE JSONparse(trim(in))

tryParseJson(in) == ParseTrimmed(trim(in))

---------------------------------------------------------------------------
(* RegExp: the three patterns the code builds around the escaped key *)

RegExpMeta == {".", "*", "+", "?", "^", "$", "{", "}", "(", ")", "|", "[", "]", "\\"}

\* s.replace(/[.*+?^${}()|[\]\\]/g, "\\$&")
RECURSIVE escapeRegExp(_)
escapeRegExp(s) ==
    IF s = <<>> THEN <<>>
    ELSE (IF s[1] \in RegExpMeta THEN <<"\\", s[1]>> ELSE <<s[1]>>) \o escapeRegExp(Tail(s))

\* The pattern source of the key, read as the RegExp constructor reads it: a
\* backslash makes the next character a literal, a bare "." is any character but
\* a line terminator, every other character is itself.  (escapeRegExp leaves no
\* other metacharacter bare.)
RECURSIVE KeyAtoms(_)
KeyAtoms(src) ==
    IF src = <<>> THEN <<>>
    ELSE IF src[1] = "\\" /\ Len(src) >= 2
         THEN <<[any |-> FALSE, c |-> src[2]]>> \o KeyAtoms(Sub(src, 3, Len(src)))
    ELSE <<[any |-> src[1] = ".", c |-> src[1]]>> \o KeyAtoms(Tail(src))

\* The atoms match the text at position i (flag "i": letters match in either case).
AtomsAt(text, i, atoms) ==
    /\ i >= 1
    /\ i + Len(atoms) - 1 <= Len(text)
    /\ \A n \in 1..Len(atoms) :
          IF atoms[n].any THEN text[i + n - 1] \notin {"\n", "\r"}
          ELSE SameCharI(text[i + n - 1], atoms[n].c)

NoMatch == [ok |-> FALSE, g |-> 0, s |-> <<>>]
Match(g, s) == [ok |-> TRUE, g |-> g, s |-> s]

\* "([^"]+)" with the quote character q, at position b: the end of the group, or 0.
QuotedEnd(text, b, q) ==
    LET e == SkipNotIn(text, b + 1, {q}) IN
    IF b <= Len(text) /\ text[b] = q /\ e > b + 1 /\ e <= Len(text) THEN e ELSE 0

NumChars == {"-", ".", "0", "1", "2", "3", "4", "5", "6", "7", "8", "9"}

TrueWord == <<"t", "r", "u", "e">>
FalseWord == <<"f", "a", "l", "s", "e">>
NullWord == <<"n", "u", "l", "l">>

\* /"KEY"\s*:\s*(?:"([^"]+)"|'([^']+)'|([\-\d.]+)|(true|false)|null)/ with flag
\* "i", tried at position i.  The group that took part and what it captured;
\* group 5 stands for the alternative null, which captures nothing.
JsonishAt(text, i, atoms) ==
    LET q == i + 1 + Len(atoms)
        a == SkipIn(text, q + 1, WhiteSpace)
        b == SkipIn(text, a + 1, WhiteSpace)
        e1 == QuotedEnd(text, b, "\"")
        e2 == QuotedEnd(text, b, "'")
        e3 == SkipIn(text, b, NumChars)
    IN  IF ~(/\ i <= Len(text) /\ text[i] = "\""
             /\ AtomsAt(text, i + 1, atoms)
             /\ q <= Len(text) /\ text[q] = "\""
             /\ a <= Len(text) /\ text[a] = ":") THEN NoMatch
        ELSE IF e1 > 0 THEN Match(1, Sub(text, b + 1, e1 - 1))
        ELSE IF e2 > 0 THEN Match(2, Sub(text, b + 1, e2 - 1))
        ELSE IF e3 > b THEN Match(3, Sub(text, b, e3 - 1))
        ELSE IF HasAtI(text, b, TrueWord) THEN Match(4, Sub(text, b, b + 3))
        ELSE IF HasAtI(text, b, FalseWord) THEN Match(4, Sub(text, b, b + 4))
        ELSE IF HasAtI(text, b, NullWord) THEN Match(5, <<>>)
        ELSE NoMatch

\* String.prototype.match with a pattern that has no flag "g": the leftmost match.
RECURSIVE JsonishFrom(_, _, _)
JsonishFrom(text, i, atoms) ==
    IF i > Len(text) THEN NoMatch
    ELSE LET m == JsonishAt(text, i, atoms) IN
         IF m.ok THEN m ELSE JsonishFrom(text, i + 1, atoms)

\* /KEY\s*(?:=|:)\s*("([^"]+)"|'([^']+)'|([^STOP]+))/ at position k.
KvRestAt(text, k, atoms, stop) ==
    LET a == SkipIn(text, k + Len(atoms), WhiteSpace)
        b == SkipIn(text, a + 1, WhiteSpace)
        e2 == QuotedEnd(text, b, "\"")
        e3 == QuotedEnd(text, b, "'")
        e4 == SkipNotIn(text, b, stop)
    IN  IF ~(/\ AtomsAt(text, k, atoms)
             /\ a <= Len(text) /\ text[a] \in {"=", ":"}) THEN NoMatch
        ELSE IF e2 > 0 THEN Match(2, Sub(text, b + 1, e2 - 1))
        ELSE IF e3 > 0 THEN Match(3, Sub(text, b + 1, e3 - 1))
        ELSE IF e4 > b THEN Match(4, Sub(text, b, e4 - 1))
        ELSE NoMatch

\* /(?:^|[PRE])/ followed by the rest, tried at position i (i may be Len+1: an
\* empty key matches nothing there, since a value must follow).
KvAt(text, i, atoms, pre, stop) ==
    LET atStart == IF i = 1 THEN KvRestAt(text, 1, atoms, stop) ELSE NoMatch
        afterPre == IF i <= Len(text) /\ text[i] \in pre
                    THEN KvRestAt(text, i + 1, atoms, stop) ELSE NoMatch
    IN  IF atStart.ok THEN atStart ELSE afterPre

RECURSIVE KvFrom(_, _, _, _, _)
KvFrom(text, i, atoms, pre, stop) ==
    IF i > Len(text) THEN NoMatch
    ELSE LET m == KvAt(text, i, atoms, pre, stop) IN
         IF m.ok THEN m ELSE KvFrom(text, i + 1, atoms, pre, stop)

UrlPre == WhiteSpace \cup {"?", "&", ";", ","}
UrlStop == WhiteSpace \cup {"&", ";", ","}
GenericPre == WhiteSpace \cup {",", ";", "|"}
GenericStop == WhiteSpace \cup {",", ";", "|"}

---------------------------------------------------------------------------
(* Percent-decoding, URLSearchParams, URL *)

Ascii ==
  <<
    "<00>", "<01>", "<02>", "<03>", "<04>", "<05>", "<06>", "<07>",
    "<08>", "\t", "\n", "<0B>", "\f", "\r", "<0E>", "<0F>",
    "<10>", "<11>", "<12>", "<13>", "<14>", "<15>", "<16>", "<17>",
    "<18>", "<19>", "<1A>", "<1B>", "<1C>", "<1D>", "<1E>", "<1F>",
    " ", "!", "\"", "#", "$", "%", "&", "'",
    "(", ")", "*", "+", ",", "-", ".", "/",
    "0", "1", "2", "3", "4", "5", "6", "7",
    "8", "9", ":", ";", "<", "=", ">", "?",
    "@", "A", "B", "C", "D", "E", "F", "G",
    "H", "I", "J", "K", "L", "M", "N", "O",
    "P", "Q", "R", "S", "T", "U", "V", "W",
    "X", "Y", "Z", "[", "\\", "]", "^", "_",
    "<60>", "a", "b", "c", "d", "e", "f", "g",
    "h", "i", "j", "k", "l", "m", "n", "o",
    "p", "q", "r", "s", "t", "u", "v", "w",
    "x", "y", "z", "{", "|", "}", "~", "<7F>"
  >>

\* s has an escape %XX at position i.
EscapeAt(s, i) == i + 2 <= Len(s) /\ s[i] = "%" /\ IsHex(s[i + 1]) /\ IsHex(s[i + 2])

ByteAt(s, i) == 16 * HexVal(s[i + 1]) + HexVal(s[i + 2])

\* decodeURIComponent: the decoded string, or a URIError thrown at a "%" that
\* opens no escape.  A byte above 7F stands alone in the model's alphabet (no
\* well-formed multi-byte sequence occurs), which is malformed UTF-8.
RECURSIVE DecodeStrict(_, _, _)
DecodeStrict(s, i, acc) ==
    IF i > Len(s) THEN Str(acc)
    ELSE IF s[i] # "%" THEN DecodeStrict(s, i + 1, Append(acc, s[i]))
    ELSE IF ~EscapeAt(s, i) THEN Throw("URIError")
    ELSE IF ByteAt(s, i) > 127 THEN Throw("URIError")
    ELSE DecodeStrict(s, i + 3, Append(acc, Ascii[ByteAt(s, i) + 1]))

decodeURIComponent(s) == DecodeStrict(s, 1, <<>>)

\* The decoding of application/x-www-form-urlencoded: "+" is a space, a "%" that
\* opens no escape stays, a malformed byte becomes U+FFFD.
RECURSIVE DecodeForm(_, _, _)
DecodeForm(s, i, acc) ==
    IF i > Len(s) THEN acc
    ELSE IF s[i] = "+" THEN DecodeForm(s, i + 1, Append(acc, " "))
    ELSE IF ~EscapeAt(s, i) THEN DecodeForm(s, i + 1, Append(acc, s[i]))
    ELSE IF ByteAt(s, i) > 127 THEN DecodeForm(s, i + 3, Append(acc, "<FFFD>"))
    ELSE DecodeForm(s, i + 3, Append(acc, Ascii[ByteAt(s, i) + 1]))

\* One name=value piece of a query.
FormPair(piece) ==
    LET e == SkipNotIn(piece, 1, {"="}) IN
    [name |-> DecodeForm(Sub(piece, 1, e - 1), 1, <<>>),
     value |-> DecodeForm(Sub(piece, e + 1, Len(piece)), 1, <<>>)]

\* The pairs of a query string: split on "&", empty pieces dropped.
RECURSIVE FormParse(_, _)
FormParse(q, i) ==
    IF i > Len(q) THEN <<>>
    ELSE LET e == SkipNotIn(q, i, {"&"}) IN
         (IF e > i THEN <<FormPair(Sub(q, i, e - 1))>> ELSE <<>>) \o FormParse(q, e + 1)

\* new URLSearchParams(init): one leading "?" is dropped.
URLSearchParams(init) ==
    FormParse(IF Len(init) > 0 /\ init[1] = "?" THEN Tail(init) ELSE init, 1)

\* URLSearchParams.prototype.get: the first value of the name, or null.
ParamsGet(pairs, name) ==
    IF \E n \in 1..Len(pairs) : pairs[n].name = name
    THEN Str(pairs[CHOOSE n \in 1..Len(pairs) :
                     /\ pairs[n].name = name
                     /\ \A k \in 1..(n - 1) : pairs[k].name # name].value)
    ELSE Null

SpecialSchemes == { <<"h", "t", "t", "p">>, <<"h", "t", "t", "p", "s">>,
                    <<"w", "s">>, <<"w", "s", "s">>, <<"f", "t", "p">> }

FileScheme == <<"f", "i", "l", "e">>

SchemeChars == {"+", "-", "."}

ForbiddenHostChars ==
    {"<00>", "\t", "\n", "\r", " ", "#", "/", ":", "<", ">", "?", "@", "[", "\\", "]", "^", "|"}

RECURSIVE SkipScheme(_, _)
SkipScheme(s, i) ==
    IF i <= Len(s) /\ (IsAlpha(s[i]) \/ IsDigit(s[i]) \/ s[i] \in SchemeChars)
    THEN SkipScheme(s, i + 1) ELSE i

RECURSIVE LastIndexOf(_, _, _)
LastIndexOf(s, c, i) ==
    IF i < 1 THEN 0 ELSE IF s[i] = c THEN i ELSE LastIndexOf(s, c, i - 1)

\* host[:port] after any credentials: the host is free of forbidden code points
\* (and of "%" when special, where it must not be empty), the port is a number
\* up to 65535.  IDNA, IPv4 and IPv6 literals are outside the model's alphabet.
AuthorityOk(auth, special) ==
    LET at == LastIndexOf(auth, "@", Len(auth))
        hp == Sub(auth, at + 1, Len(auth))
        colon == LastIndexOf(hp, ":", Len(hp))
        host == IF colon > 0 THEN Sub(hp, 1, colon - 1) ELSE hp
        port == IF colon > 0 THEN Sub(hp, colon + 1, Len(hp)) ELSE <<>>
    IN  /\ \A n \in 1..Len(host) : host[n] \notin ForbiddenHostChars
        /\ special => (host # <<>> /\ \A n \in 1..Len(host) : host[n] # "%")
        /\ (at > 0 \/ colon > 0) => host # <<>>
        /\ \A n \in 1..Len(port) : IsDigit(port[n])
        /\ Len(port) <= 5
        /\ IntOf(port) <= 65535

\* The query of what follows the authority: after the first "?", up to a "#";
\* none when a "#" comes first.
QueryOf(rest) ==
    LET q == SkipNotIn(rest, 1, {"?", "#"})
        e == SkipNotIn(rest, q + 1, {"#"})
    IN  IF q <= Len(rest) /\ rest[q] = "?" THEN Sub(rest, q + 1, e - 1) ELSE <<>>

RemoveTabNewline(s) == SelectSeq(s, LAMBDA c : c \notin {"\t", "\n", "\r"})

\* new URL(s) without a base: the parsed URL (of which the code reads only the
\* query), or a TypeError thrown.
NewURL(s0) ==
    LET s == RemoveTabNewline(s0)
        c == SkipScheme(s, 1)
        scheme == toLowerCase(Sub(s, 1, c - 1))
        rest == Sub(s, c + 1, Len(s))
        special == scheme \in SpecialSchemes
        slashes == IF special THEN {"/", "\\"} ELSE {"/"}
        \* special: any run of slashes opens the authority; otherwise only "//"
        a == IF special THEN SkipIn(rest, 1, slashes)
             ELSE IF HasAt(rest, 1, <<"/", "/">>) THEN 3 ELSE 0
        hasAuth == a > 0 /\ scheme # FileScheme
        e == SkipNotIn(rest, a, slashes \cup {"?", "#"})
        auth == Sub(rest, a, e - 1)
        after == IF hasAuth THEN Sub(rest, e, Len(rest)) ELSE rest
    IN  IF ~(Len(s) > 0 /\ IsAlpha(s[1]) /\ c <= Len(s) /\ s[c] = ":")
        THEN Throw("TypeError")
        ELSE IF hasAuth /\ ~AuthorityOk(auth, special) THEN Throw("TypeError")
        ELSE [t |-> "URL", query |-> QueryOf(after)]

---------------------------------------------------------------------------
(* src/app/page.tsx, lines 52-130.  A function returns a value, or Throw(e)   *)
(* when an exception leaves it; a try/catch is the test IsThrow.              *)

\* try { return decodeURIComponent(s) } catch { return s }
DecodedOr(d, s) == IF IsThrow(d) THEN Str(s) ELSE d

decodeMaybe(s) == DecodedOr(decodeURIComponent(s), s)

\* /^[?#]/ replaced by ""
StripLead(s) == IF Len(s) > 0 /\ s[1] \in {"?", "#"} THEN Tail(s) ELSE s

\* m[2] || m[3] || m[4]: the group that took part is never empty.
Captured(m) == m.s

\* Lines 62-68: the query of the text read as a URL; null when new URL throws.
UrlParam(u, k) == IF IsThrow(u) THEN Null ELSE ParamsGet(URLSearchParams(u.query), k)

\* Lines 65-84: the three sources in their order, the first found decoded.
FirstUrlLike(val1, val, m) ==
    IF val1 # Null THEN decodeMaybe(val1.s)
    ELSE IF val # Null THEN decodeMaybe(val.s)
    ELSE IF m.ok THEN decodeMaybe(Captured(m))
    ELSE Undefined

SearchRaw(val1, rawq, k) ==
    FirstUrlLike(val1, ParamsGet(URLSearchParams(rawq), k),
                 KvFrom(rawq, 1, KeyAtoms(escapeRegExp(k)), UrlPre, UrlStop))

searchUrlLike(in, k) == SearchRaw(UrlParam(NewURL(trim(in)), k), StripLead(trim(in)), k)

\* Lines 91-95: the value of the parsed text at the key.
ParsedValue(parsed, k) ==
    IF includes(k, ".") THEN getByPath(parsed, k)
    ELSE IF isObject(parsed) THEN GetProp(parsed, k)
    ELSE Undefined

\* Lines 103-111: the value of a jsonish match m, n being Number(m[3]).
JsonishValue(m, n) ==
    IF ~m.ok THEN Undefined
    ELSE IF m.g = 1 THEN Str(m.s)
    ELSE IF m.g = 2 THEN Str(m.s)
    ELSE IF m.g = 3 THEN (IF isNaN(n) THEN Str(m.s) ELSE n)
    ELSE IF m.g = 4 THEN Bool(toLowerCase(m.s) = TrueWord)
    ELSE Null

JsonishResult(m) == JsonishValue(m, NumberOf(m.s))

\* Lines 89-103: strict parse first, the jsonish pattern after it.
StrictOrJsonish(parsed, val, loose) ==
    IF IsThrow(parsed) THEN parsed
    ELSE IF parsed # Undefined /\ val # Undefined /\ typeof(val) # "object" THEN val
    ELSE loose

SearchParsed(parsed, in, k) ==
    StrictOrJsonish(parsed, ParsedValue(parsed, k),
                    JsonishResult(JsonishFrom(in, 1, KeyAtoms(escapeRegExp(k)))))

searchJsonLike(in, k) == SearchParsed(tryParseJson(in), in, k)

\* Lines 115-129: the three searches in their order; m is the generic match.
FirstFound(k, j, u, m) ==
    IF trim(k) = <<>> THEN Undefined
    ELSE IF IsThrow(j) THEN j
    ELSE IF j # Undefined THEN j
    ELSE IF IsThrow(u) THEN u
    ELSE IF u # Undefined THEN u
    ELSE IF m.ok THEN Str(Captured(m))
    ELSE Undefined

\* extractValue taking the URL result by its truthiness: "" counts as nothing.
FirstTruthy(k, j, u, m) ==
    IF trim(k) = <<>> THEN Undefined
    ELSE IF IsThrow(j) THEN j
    ELSE IF j # Undefined THEN j
    ELSE IF IsThrow(u) THEN u
    ELSE IF u # Undefined /\ u # Str(<<>>) THEN u
    ELSE IF m.ok THEN Str(Captured(m))
    ELSE Undefined

extractValueTruthy(in, k) ==
    FirstTruthy(k, searchJsonLike(in, k), searchUrlLike(in, k),
                KvFrom(in, 1, KeyAtoms(escapeRegExp(k)), GenericPre, GenericStop))

extractValue(in, k) ==
    FirstFound(k, searchJsonLike(in, k), searchUrlLike(in, k),
               KvFrom(in, 1, KeyAtoms(escapeRegExp(k)), GenericPre, GenericStop))

---------------------------------------------------------------------------
(* The calls checked: texts and keys *)

MaxFields == 2      \* members of a generated JSON object
MaxParams == 2      \* parameters of a generated query
MaxPieces == 2      \* key/value pieces of a generated line of text

SeqsUpTo(S, n) == UNION {[1..m -> S] : m \in 0..n}

RECURSIVE Join(_, _)
Join(parts, sep) ==
    IF parts = <<>> THEN <<>>
    ELSE IF Len(parts) = 1 THEN parts[1]
    ELSE parts[1] \o sep \o Join(Tail(parts), sep)

\* JSON.stringify, members kept as written (a name may repeat).
RECURSIVE Stringify(_)
Stringify(v) ==
    CASE v.t = "string" -> <<"\"">> \o v.s \o <<"\"">>
      [] v.t = "number" -> NumToStr(v)
      [] v.t = "boolean" -> (IF v.b THEN TrueWord ELSE FalseWord)
      [] v.t = "null" -> NullWord
      [] v.t = "array" -> <<"[">> \o Join([n \in 1..Len(v.a) |-> Stringify(v.a[n])], <<",">>) \o <<"]">>
      [] v.t = "object" ->
            <<"{">> \o Join([n \in 1..Len(v.f) |->
                              <<"\"">> \o v.f[n].k \o <<"\"">> \o <<":">> \o Stringify(v.f[n].v)],
                            <<",">>) \o <<"}">>

Field(k, v) == [k |-> k, v |-> v]

MemberChoices ==
    { Field(<<"k">>, Dec(5, 0)),
      Field(<<"k">>, Null),
      Field(<<"k">>, Str(<<"v">>)),
      Field(<<"k">>, Str(<<>>)),
      Field(<<"K">>, Bool(TRUE)),
      Field(<<"a">>, Obj(<<Field(<<"k">>, Dec(15, -1))>>)),
      Field(<<"a">>, Obj(<<Field(<<"k">>, Null)>>)),
      Field(<<"a">>, Arr(<<Dec(10, 0), Dec(20, 0)>>)) }

JsonObjects == {Obj(fs) : fs \in SeqsUpTo(MemberChoices, MaxFields)}

\* A JSON text as written, padded, followed by other text, cut short, and as the
\* only element of an array.
JsonTexts ==
    UNION { { Stringify(o),
              <<" ">> \o Stringify(o) \o <<" ">>,
              Stringify(o) \o <<" ", "k", "=", "B">>,
              Sub(Stringify(o), 1, Len(Stringify(o)) - 1),
              <<"[">> \o Stringify(o) \o <<"]">> } : o \in JsonObjects }

ParamChoices ==
    { <<"k", "=", "v">>,
      <<"k", "=">>,
      <<"k", "=", "%", "2", "5", "4", "1">>,
      <<"k", "=", "a", "%", "2", "0", "b", "%">>,
      <<"K", "=", "x", "%", "2", "B", "y">>,
      <<"a", "=", "1">> }

UrlPrefixes ==
    { <<"h", "t", "t", "p", ":", "/", "/", "h", "/", "?">>,
      <<"h", "t", "t", "p", ":", "?">>,
      <<"x", ":", "y", "?">>,
      <<"?">>,
      <<"#">>,
      <<>> }

UrlTexts ==
    { pre \o Join(ps, <<"&">>) : pre \in UrlPrefixes, ps \in SeqsUpTo(ParamChoices, MaxParams) }

PieceChoices ==
    { <<"k", ":", " ", "7">>,
      <<"K", " ", "=", " ", "\"", "a", " ", "b", "\"">>,
      <<"k", "=", "'", "q", "'">>,
      <<"\"", "k", "\"", ":", " ", "N", "U", "L", "L">>,
      <<"\"", "K", "\"", ":", "1", ".", "2", ".", "3">>,
      <<"n", "a", "m", "e">> }

Separators == { <<";", " ">>, <<"|">>, <<" ">> }

LineTexts ==
    { Join(ps, sep) : ps \in SeqsUpTo(PieceChoices, MaxPieces), sep \in Separators }

Inputs == JsonTexts \cup UrlTexts \cup LineTexts

Keys ==
    { <<"k">>, <<"K">>, <<"a">>, <<>>, <<" ">>, <<" ", "k">>,
      <<"a", ".", "k">>, <<"a", ".", "1">>, <<".", "a", ".", ".", "k", ".">>,
      <<"a", ".", "x", ".", "k">>, <<"k", ".", "a">>, <<"0", ".", "k">>,
      <<"a", ".", "-", "1">>,
      <<"c", "o", "n", "s", "t", "r", "u", "c", "t", "o", "r">>,
      <<"a", ".", "v", "a", "l", "u", "e", "O", "f">> }

---------------------------------------------------------------------------
(* The calls of the core functions on one text and one key *)

NotCalled == [t |-> "not called"]

PageInit ==
    /\ raw = <<>>
    /\ propKey = <<"e", "i", "d">>
    /\ result = Undefined
    /\ message = ""
    /\ effectDue = TRUE
    /\ reads = 0
    /\ last = [step |-> "mount", after |-> ""]

CoreIdle ==
    /\ input = <<>>
    /\ key = <<>>
    /\ out = NotCalled
    /\ pathOut = NotCalled
    /\ jsonOut = NotCalled
    /\ urlOut = NotCalled
    /\ pc = "idle"

Init ==
    /\ input \in Inputs
    /\ key \in Keys
    /\ out = NotCalled
    /\ pathOut = NotCalled
    /\ jsonOut = NotCalled
    /\ urlOut = NotCalled
    /\ pc = "getByPath"
    /\ PageInit

\* getByPath on the strictly parsed text (searchJsonLike, line 92).
CallGetByPath ==
    /\ pc = "getByPath"
    /\ pathOut' = getByPath(tryParseJson(input), key)
    /\ pc' = "searchJsonLike"
    /\ UNCHANGED <<input, key, out, jsonOut, urlOut>>
    /\ UNCHANGED pageVars

CallSearchJsonLike ==
    /\ pc = "searchJsonLike"
    /\ jsonOut' = searchJsonLike(input, key)
    /\ pc' = "searchUrlLike"
    /\ UNCHANGED <<input, key, out, pathOut, urlOut>>
    /\ UNCHANGED pageVars

CallSearchUrlLike ==
    /\ pc = "searchUrlLike"
    /\ urlOut' = searchUrlLike(input, key)
    /\ pc' = "extractValue"
    /\ UNCHANGED <<input, key, out, pathOut, jsonOut>>
    /\ UNCHANGED pageVars

CallExtractValue ==
    /\ pc = "extractValue"
    /\ out' = extractValue(input, key)
    /\ pc' = "done"
    /\ UNCHANGED <<input, key, pathOut, jsonOut, urlOut>>
    /\ UNCHANGED pageVars

Next ==
    \/ CallGetByPath
    \/ CallSearchJsonLike
    \/ CallSearchUrlLike
    \/ CallExtractValue

Spec == Init /\ [][Next]_vars

---------------------------------------------------------------------------
(* src/app/page.tsx, lines 132-246: the Page component *)

MaxReads == 2       \* clipboard reads in flight at once

NoMatchMsg == "No match found."
ErrorMsg == "An error occurred while searching."
PastedMsg == "Pasted from clipboard."
EmptyMsg == "Clipboard is empty."
DeniedMsg == "Unable to read from clipboard. Check permissions."
ClearedMsg == "Cleared."

\* What is typed into, or pasted into, the text area.
PageTexts ==
    { <<>>,
      <<" ">>,
      <<"x">>,
      <<"k", "=", "1">>,
      <<"{", "\"", "k", "\"", ":", "\"", "\"", "}">>,
      <<"{", "\"", "k", "\"", ":", "n", "u", "l", "l", "}">> }

\* navigator.clipboard.readText() resolves with a string; the empty one is apart.
ClipboardTexts == PageTexts \ {<<>>}

\* What is typed into the key field.
PageKeys ==
    { <<"e", "i", "d">>, <<"k">>, <<" ", "k", " ">>,
      <<"c", "o", "n", "s", "t", "r", "u", "c", "t", "o", "r">> }

\* An Object.prototype method called as a plain function (this is undefined) on
\* one argument: Object(v) makes an object of v, toString names undefined,
\* isPrototypeOf answers false for what is no object, the rest throw a TypeError.
CallUpdater(fn, prev) ==
    IF fn.name = <<"c", "o", "n", "s", "t", "r", "u", "c", "t", "o", "r">> THEN
        (IF prev.t \in {"undefined", "null"} THEN Obj(<<>>)
         ELSE IF typeof(prev) = "object" THEN prev
         ELSE [t |-> "object", f |-> <<>>, boxed |-> prev])
    ELSE IF fn.name = <<"t", "o", "S", "t", "r", "i", "n", "g">> THEN
        Str(<<"[", "o", "b", "j", "e", "c", "t", " ", "U", "n", "d", "e", "f", "i", "n", "e", "d", "]">>)
    ELSE IF fn.name = <<"i", "s", "P", "r", "o", "t", "o", "t", "y", "p", "e", "O", "f">>
            /\ ~(typeof(prev) \in {"object", "function"} /\ prev.t # "null") THEN
        Bool(FALSE)
    ELSE Throw("TypeError")

\* The setter of useState: a function is an updater, called on the state it finds.
SetState(prev, next) == IF next.t = "function" THEN CallUpdater(next, prev) ELSE next

\* An updater that throws takes the component tree down with it.
Mounted == ~IsThrow(result)

\* An event handler or a promise callback runs on the committed state: React
\* runs the effect of a commit before it handles anything that comes after.
Settled == Mounted /\ ~effectDue

\* The recompute effect (lines 141-160) on the committed raw and propKey: the
\* result and the message it leaves.
EffectOf(r, prev, value) ==
    IF trim(r) = <<>> THEN [result |-> SetState(prev, Undefined), message |-> ""]
    ELSE IF IsThrow(value) THEN [result |-> SetState(prev, Undefined), message |-> ErrorMsg]
    ELSE [result |-> SetState(prev, value),
          message |-> IF value = Undefined THEN NoMatchMsg ELSE ""]

Effect(r, k, prev) == EffectOf(r, prev, extractValue(r, trim(k)))

\* display without its test for null: a null result shows as the empty string.
displayNoNull(res) ==
    IF res = Undefined THEN Null
    ELSE IF typeof(res) = "string" THEN res
    ELSE IF typeof(res) = "number" THEN Str(NumToStr(res))
    ELSE IF typeof(res) = "boolean" THEN Str(IF res.b THEN TrueWord ELSE FalseWord)
    ELSE Str(<<>>)

\* useMemo display (lines 185-191): null, or the string shown.
display(res) ==
    IF res = Undefined THEN Null
    ELSE IF typeof(res) = "string" THEN res
    ELSE IF typeof(res) = "number" THEN Str(NumToStr(res))
    ELSE IF typeof(res) = "boolean" THEN Str(IF res.b THEN TrueWord ELSE FalseWord)
    ELSE IF res = Null THEN Str(NullWord)
    ELSE Str(<<>>)

\* The result section (lines 202-210): the message line and the value box.
Render(res, msg) ==
    LET d == display(res)
        boxed == d # Null /\ d # Str(<<>>)
    IN  [message |-> msg, box |-> boxed, text |-> IF boxed THEN d.s ELSE <<>>]

Step(name) == [step |-> name, after |-> ""]

\* Textarea onChange (line 246).
ChangeRaw ==
    \E text \in PageTexts :
        /\ Settled
        /\ text # raw
        /\ raw' = text
        /\ effectDue' = TRUE
        /\ last' = Step("type")
        /\ UNCHANGED <<propKey, result, message, reads>>
        /\ UNCHANGED coreVars

\* Input onChange (line 222).
ChangeKey ==
    \E k \in PageKeys :
        /\ Settled
        /\ k # propKey
        /\ propKey' = k
        /\ effectDue' = TRUE
        /\ last' = Step("key")
        /\ UNCHANGED <<raw, result, message, reads>>
        /\ UNCHANGED coreVars

\* onPaste up to its await (lines 162-164).
ClickPaste ==
    /\ Settled
    /\ reads < MaxReads
    /\ reads' = reads + 1
    /\ last' = Step("paste")
    /\ UNCHANGED <<raw, propKey, result, message, effectDue>>
    /\ UNCHANGED coreVars

\* onPaste after its await, with text read (lines 165-167, 171).
PasteText ==
    \E text \in ClipboardTexts :
        /\ Settled
        /\ reads > 0
        /\ reads' = reads - 1
        /\ raw' = text
        /\ message' = PastedMsg
        /\ effectDue' = (text # raw)
        /\ last' = Step(IF text # raw THEN "pasted" ELSE "pasted same")
        /\ UNCHANGED <<propKey, result>>
        /\ UNCHANGED coreVars

\* onPaste after its await, the clipboard empty (lines 168-171).
PasteEmpty ==
    /\ Settled
    /\ reads > 0
    /\ reads' = reads - 1
    /\ message' = EmptyMsg
    /\ last' = Step("empty")
    /\ UNCHANGED <<raw, propKey, result, effectDue>>
    /\ UNCHANGED coreVars

\* onPaste after its await, the read rejected (lines 172-175).
PasteDenied ==
    /\ Settled
    /\ reads > 0
    /\ reads' = reads - 1
    /\ message' = DeniedMsg
    /\ last' = Step("denied")
    /\ UNCHANGED <<raw, propKey, result, effectDue>>
    /\ UNCHANGED coreVars

\* onClear (lines 178-183).
ClickClear ==
    /\ Settled
    /\ raw' = <<>>
    /\ result' = SetState(result, Undefined)
    /\ message' = ClearedMsg
    /\ effectDue' = (raw # <<>>)
    /\ last' = Step(IF raw # <<>> THEN "clear" ELSE "clear same")
    /\ UNCHANGED <<propKey, reads>>
    /\ UNCHANGED coreVars

\* The effect of useEffect(..., [raw, propKey]) runs (lines 141-160).
RunEffect ==
    /\ Mounted
    /\ effectDue
    /\ result' = Effect(raw, propKey, result).result
    /\ message' = Effect(raw, propKey, result).message
    /\ effectDue' = FALSE
    /\ last' = [step |-> "effect", after |-> last.step]
    /\ UNCHANGED <<raw, propKey, reads>>
    /\ UNCHANGED coreVars

PageNext ==
    \/ ChangeRaw
    \/ ChangeKey
    \/ ClickPaste
    \/ PasteText
    \/ PasteEmpty
    \/ PasteDenied
    \/ ClickClear
    \/ RunEffect

PageStart == PageInit /\ CoreIdle

PageSpec == PageStart /\ [][PageNext]_vars

---------------------------------------------------------------------------
(* What the claims say, stated apart from the code *)

Scalar(v) == v.t \in {"string", "number", "boolean", "null"}

Called(p) == p # NotCalled

\* The strict parse of the text, as JSON.parse gives it.
Parsed == JSONparse(trim(input))

ParsesToObject == ~IsThrow(Parsed) /\ Parsed.t = "object"

OwnField(obj, name) ==
    IF HasField(obj.f, name) THEN obj.f[FieldIndex(obj.f, name)].v ELSE Undefined

AllDigits(seg) == seg # <<>> /\ \A n \in 1..Len(seg) : IsDigit(seg[n])

\* An element of an array by a segment that is a non-negative integer index.
Element(arr, seg) ==
    IF AllDigits(seg) /\ IntOf(seg) < Len(arr.a) THEN arr.a[IntOf(seg) + 1] ELSE Undefined

\* Path resolution as stated: from the root, an array takes an index, a mapping
\* a field of its own, anything else fails; empty segments are skipped.
RECURSIVE Resolve(_, _, _)
Resolve(cur, parts, n) ==
    IF n > Len(parts) THEN cur
    ELSE IF cur.t = "array" THEN Resolve(Element(cur, parts[n]), parts, n + 1)
    ELSE IF cur.t = "object" THEN Resolve(OwnField(cur, parts[n]), parts, n + 1)
    ELSE Undefined

\* What the key resolves to in the parsed object: a top-level field when the key
\* has no dot, a dot-path otherwise.
ResolvedInObject ==
    IF includes(key, ".") THEN Resolve(Parsed, SplitDots(key, 1, <<>>), 1)
    ELSE OwnField(Parsed, key)

\* The generic key:value pattern on the text (lines 125-129).
GenericResult ==
    LET m == KvFrom(input, 1, KeyAtoms(escapeRegExp(key)), GenericPre, GenericStop)
    IN  IF m.ok THEN Str(Captured(m)) ELSE Undefined

\* C1: extractValue returns absent for a key that trims to nothing, and otherwise
\* the first result that is not absent among searchJsonLike, searchUrlLike and
\* the generic pattern, in that order; an empty string of the URL strategy is a
\* result.
C1_FirstStrategyWins ==
    pc = "done" =>
        out = IF trim(key) = <<>> THEN Undefined
              ELSE IF jsonOut # Undefined THEN jsonOut
              ELSE IF urlOut # Undefined THEN urlOut
              ELSE GenericResult

\* C1 witness: the URL strategy found the empty string, which is returned
\* although the JSON-like strategy found nothing.
C1_Witness ==
    /\ pc = "done"
    /\ trim(key) # <<>>
    /\ jsonOut = Undefined
    /\ urlOut = Str(<<>>)
    /\ out = Str(<<>>)

\* C2: when the text parses as a JSON object and the key resolves in it to a
\* scalar v (null included), extractValue returns v itself.
C2_ScalarReturned ==
    (pc = "done" /\ trim(key) # <<>> /\ ParsesToObject /\ Scalar(ResolvedInObject))
        => out = ResolvedInObject

\* C3: the result of extractValue is a string, a number, a boolean, null or
\* absent, never any other kind of value.
C3_ScalarOrAbsent ==
    pc = "done" => (Scalar(out) \/ out = Undefined)

\* The raw pieces name=value of a query, split on "&".
RECURSIVE RawPairs(_, _)
RawPairs(q, i) ==
    IF i > Len(q) THEN <<>>
    ELSE LET e == SkipNotIn(q, i, {"&"})
             piece == Sub(q, i, e - 1)
             eq == SkipNotIn(piece, 1, {"="})
         IN  (IF e > i THEN <<[name |-> Sub(piece, 1, eq - 1),
                               value |-> Sub(piece, eq + 1, Len(piece))]>>
              ELSE <<>>) \o RawPairs(q, e + 1)

\* The text is a complete URL whose query has a parameter written as the key.
UrlHasKey ==
    /\ ~IsThrow(NewURL(trim(input)))
    /\ \E n \in 1..Len(RawPairs(NewURL(trim(input)).query, 1)) :
           RawPairs(NewURL(trim(input)).query, 1)[n].name = key

\* The value of that parameter as written in the URL (the first of its name).
RawValue ==
    LET ps == RawPairs(NewURL(trim(input)).query, 1)
        n == CHOOSE n \in 1..Len(ps) :
                 ps[n].name = key /\ \A k \in 1..(n - 1) : ps[k].name # key
    IN  ps[n].value

\* C4: for a complete URL whose query has the key (the JSON-like strategy
\* finding nothing), extractValue returns the value of the parameter
\* percent-decoded, and the value as written when it cannot be decoded.
C4_DecodedOnce ==
    (pc = "done" /\ trim(key) # <<>> /\ jsonOut = Undefined /\ UrlHasKey)
        => out = IF IsThrow(decodeURIComponent(RawValue)) THEN Str(RawValue)
                 ELSE decodeURIComponent(RawValue)

\* C5: the dot-path of a key resolves from the parsed root segment by segment,
\* an array (the root too) taking an index, a mapping a field of its own.
C5_PathFromRoot ==
    (Called(pathOut) /\ includes(key, ".") /\ ~IsThrow(Parsed))
        => pathOut = Resolve(Parsed, SplitDots(key, 1, <<>>), 1)

\* The strict parse gives searchJsonLike its result (lines 89-97).
StrictHit ==
    /\ tryParseJson(input) # Undefined
    /\ ParsedValue(tryParseJson(input), key) # Undefined
    /\ typeof(ParsedValue(tryParseJson(input), key)) # "object"

\* The key between double quotes is in the text, character for character.
QuotedKeyOccurs ==
    \E i \in 1..Len(input) : HasAt(input, i, <<"\"">> \o key \o <<"\"">>)

\* C6: without a strict result, searchJsonLike finds nothing in a text that
\* does not hold the key itself between double quotes.
C6_KeyMatchedLiterally ==
    (Called(jsonOut) /\ ~StrictHit /\ ~QuotedKeyOccurs) => jsonOut = Undefined

\* C7: no strategy and no call of extractValue ends in an exception: what fails
\* inside a strategy leaves it without a result, and the next one is tried.
C7_NoException ==
    /\ Called(pathOut) => ~IsThrow(pathOut)
    /\ Called(jsonOut) => ~IsThrow(jsonOut)
    /\ Called(urlOut) => ~IsThrow(urlOut)
    /\ Called(out) => ~IsThrow(out)
    /\ (pc = "done" /\ trim(key) # <<>> /\ jsonOut = Undefined /\ urlOut = Undefined)
           => out = GenericResult

\* C7 witness: JSON.parse, new URL and decodeURIComponent all threw, and the
\* call returned the undecoded value.
C7_Witness ==
    /\ pc = "done"
    /\ IsThrow(Parsed)
    /\ IsThrow(NewURL(trim(input)))
    /\ jsonOut = Undefined
    /\ out.t = "string"
    /\ IsThrow(decodeURIComponent(out.s))


---------------------------------------------------------------------------
(* The claims about the page *)

Blank == trim(raw) = <<>>

\* What extractValue returns for the text and the key the page holds.
Extraction == extractValue(raw, trim(propKey))

\* The effect was the last thing to run.
AfterEffect == Mounted /\ last.step = "effect"

\* What the result section shows.
Shown == Render(result, message)

\* The result section with nothing in it: no message line and no value box.
ShowsNothing == [message |-> "", box |-> FALSE, text |-> <<>>]

C9_ResultFollowsInput ==
    (Mounted /\ ~effectDue) =>
        /\ result = IF Blank THEN Undefined ELSE Extraction
        /\ message = NoMatchMsg => (~Blank /\ Extraction = Undefined)

\* C10: once the effect that Clear or a paste of new text sets off has run,
\* the message of that action is still the one shown.
C10_MessageKept ==
    /\ (AfterEffect /\ last.after = "clear") => message = ClearedMsg
    /\ (AfterEffect /\ last.after = "pasted") => message = PastedMsg

=============================================================================
